---------------------------- MODULE Spec2Model ----------------------------
(***************************************************************************)
(* A model of BioRanges/lightweight.py: the Range value type, the Ranges   *)
(* collection, the sequence-anchored SeqRange and the SeqRanges            *)
(* collection with its seqlengths mapping.                                 *)
(*                                                                         *)
(* Python values are modelled as tagged records, so that None, integers    *)
(* and strings stay distinct.  A call yields a result record: status "ok"  *)
(* with the returned value, or the name of the exception class it raised.  *)
(* The interpreter version is an input of a call: lightweight.py is Python  *)
(* 2 code, where None orders below every integer, and it also imports      *)
(* under Python 3, where ordering None against an integer raises           *)
(* TypeError.                                                              *)
(***************************************************************************)
EXTENDS Integers, Sequences, FiniteSets, TLC

VARIABLES op, args, res, colls, heap, pre

vars == <<op, args, res, colls, heap, pre>>

-----------------------------------------------------------------------------
(* Bounds of the model *)

MaxNeg == 1
MaxInt == 2
MaxLen == 2
MaxSeqLen == 2

-----------------------------------------------------------------------------
(* Python values and call results *)

None == [t |-> "None", v |-> 0]
PyInt(n) == [t |-> "int", v |-> n]
PyStr(s) == [t |-> "str", v |-> s]
IsNone(x) == x.t = "None"

\* x.__class__.__name__
ClassName(x) ==
    IF "cls" \in DOMAIN x THEN x.cls
    ELSE IF x.t = "None" THEN "NoneType" ELSE x.t

Ok(v) == [status |-> "ok", val |-> v]
Raise(e) == [status |-> e, val |-> None]
IsOk(r) == r.status = "ok"

PyVersions == {2, 3}

Ints == {PyInt(n) : n \in -MaxNeg..MaxInt}
OptInts == Ints \cup {None}
Names == {None, PyStr("a")}

\* x > y as the interpreter evaluates it: Python 2 orders None below every
\* integer (and None > None is false), Python 3 raises TypeError.
PyGt(pyv, x, y) ==
    IF ~IsNone(x) /\ ~IsNone(y) THEN Ok(x.v > y.v)
    ELSE IF pyv = 3 THEN Raise("TypeError")
    ELSE Ok(~IsNone(x))

\* x - y and x + y: arithmetic on None raises TypeError in both versions.
PySub(x, y) ==
    IF IsNone(x) \/ IsNone(y) THEN Raise("TypeError") ELSE Ok(PyInt(x.v - y.v))

PyAdd(x, y) ==
    IF IsNone(x) \/ IsNone(y) THEN Raise("TypeError") ELSE Ok(PyInt(x.v + y.v))

\* Counter((start, end, width))[None]
CountNone(start, end, width) ==
    Cardinality({i \in 1..3 : IsNone(<<start, end, width>>[i])})

-----------------------------------------------------------------------------
(* class Range *)

NewRange(start, end, width, name) ==
    [cls |-> "Range", start |-> start, end |-> end, width |-> width,
     name |-> name]

\* Range.__init__
RangeInit(pyv, start, end, width, name) ==
    IF CountNone(start, end, width) > 2 THEN Raise("ValueError")
    ELSE LET gt == PyGt(pyv, start, end) IN
    IF ~IsOk(gt) THEN gt
    ELSE IF gt.val \/ (~IsNone(width) /\ width.v < 0) THEN Raise("ValueError")
    ELSE LET s1 == IF IsNone(start) THEN PySub(end, width) ELSE Ok(start) IN
    IF ~IsOk(s1) THEN s1
    ELSE LET e1 == IF IsNone(end) THEN PyAdd(s1.val, width) ELSE Ok(end) IN
    IF ~IsOk(e1) THEN e1
    ELSE LET w1 == IF IsNone(width) THEN PySub(e1.val, s1.val) ELSE Ok(width) IN
    IF ~IsOk(w1) THEN w1
    ELSE Ok(NewRange(s1.val, e1.val, w1.val, name))

RangeOverlapsStrict(self, other) ==
    IF ClassName(other) # "Range" THEN Raise("ValueError")
    ELSE Ok(other.start.v < self.end.v /\ self.start.v < other.end.v)

\* Range.overlaps
RangeOverlaps(self, other) ==
    IF ClassName(other) # "Range" THEN Raise("ValueError")
    ELSE Ok(other.start.v <= self.end.v /\ self.start.v <= other.end.v)

\* The Range objects a caller can hold: the results of the constructions
\* that succeed.
RangeObjects(pyv) ==
    {RangeInit(pyv, s, e, w, None).val :
        <<s, e, w>> \in {t \in OptInts \X OptInts \X OptInts :
                            IsOk(RangeInit(pyv, t[1], t[2], t[3], None))}}

\* Arguments of other classes a caller may hand to overlaps().
NonRangeObjects == {None, PyInt(0), [t |-> "tuple", v |-> <<PyInt(0), PyInt(1)>>]}

-----------------------------------------------------------------------------
(* class Ranges *)

PyList(seq) == [t |-> "list", v |-> seq]

\* verify_arg_length: the set of the lengths of the lists that are not None.
ArgLens(arglist) ==
    {Len(arglist[i].v) : i \in {j \in 1..Len(arglist) : ~IsNone(arglist[j])}}

\* verify_arg_length; list(arg_lens)[0] of an empty set raises IndexError.
verify_arg_length(arglist) ==
    IF Cardinality(ArgLens(arglist)) > 1 THEN Raise("ValueError")
    ELSE IF ArgLens(arglist) = {} THEN Raise("IndexError")
    ELSE Ok(CHOOSE n \in ArgLens(arglist) : TRUE)

\* seq[i] where seq may be None: subscripting None raises TypeError.
PyIndex(seq, i) ==
    IF IsNone(seq) THEN Raise("TypeError") ELSE Ok(seq.v[i])

\* The loop of Ranges.__init__ from position i on; acc is self._ranges.
RECURSIVE RangesLoop(_, _, _, _, _, _, _, _)
RangesLoop(pyv, starts, ends, widths, names, i, arg_len, acc) ==
    IF i > arg_len THEN Ok([cls |-> "Ranges", _ranges |-> acc])
    ELSE LET widths_i == IF ~IsNone(widths) THEN widths.v[i] ELSE None
             names_i == IF ~IsNone(names) THEN names.v[i] ELSE None
             starts_i == PyIndex(starts, i)
             ends_i == PyIndex(ends, i)
         IN IF ~IsOk(starts_i) THEN starts_i
            ELSE IF ~IsOk(ends_i) THEN ends_i
            ELSE LET r == RangeInit(pyv, starts_i.val, ends_i.val,
                                    widths_i, names_i)
                 IN IF ~IsOk(r) THEN r
                    ELSE RangesLoop(pyv, starts, ends, widths, names, i + 1,
                                    arg_len, Append(acc, r.val))

\* Ranges.__init__
RangesInit(pyv, starts, ends, widths, names) ==
    LET arg_len == verify_arg_length(<<starts, ends, widths, names>>)
    IN IF ~IsOk(arg_len) THEN arg_len
       ELSE RangesLoop(pyv, starts, ends, widths, names, 1, arg_len.val, <<>>)

\* Ranges.__len__ and the aggregate views Ranges.start, Ranges.end,
\* Ranges.width
RangesLen(self) == Len(self._ranges)
RangesStart(self) == [i \in 1..Len(self._ranges) |-> self._ranges[i].start]
RangesEnd(self) == [i \in 1..Len(self._ranges) |-> self._ranges[i].end]
RangesWidth(self) == [i \in 1..Len(self._ranges) |-> self._ranges[i].width]

\* Lists of at most MaxLen elements of S.
ListsOf(S) == UNION {[1..n -> S] : n \in 0..MaxLen}

ListInts == {PyInt(n) : n \in 0..MaxInt}
OptIntLists == {None} \cup {PyList(l) : l \in ListsOf(ListInts)}
OptNameLists == {None} \cup {PyList(l) : l \in ListsOf({PyStr("a")})}

-----------------------------------------------------------------------------
(* class SeqRange *)

STRAND_OPTIONS == {"+", "-", "*"}

\* The names SeqRange defines with @property and no setter.
SeqRangeProperties == {"start", "strand", "end", "width"}

\* The instance attributes of a Range; it has no strand.
RangeAttributes == {"start", "end", "width", "name"}

\* self.name = value on a SeqRange: a property without a setter is a data
\* descriptor of the class, and assigning to it raises AttributeError.
SeqRangeSetAttr(self, name, value) ==
    IF name \in SeqRangeProperties THEN Raise("AttributeError")
    ELSE Ok([self EXCEPT !.dict = (name :> value) @@ @])

\* rng.name on a Range
RangeGetAttr(rng, name) ==
    IF name \in RangeAttributes THEN Ok(rng[name]) ELSE Raise("AttributeError")

\* SeqRange.__init__
SeqRangeInit(range, seqname, strand, data) ==
    LET o0 == [cls |-> "SeqRange", dict |-> <<>>]
        o1 == SeqRangeSetAttr(o0, "range", range)
    IN IF ~IsOk(o1) THEN o1
    ELSE LET o2 == SeqRangeSetAttr(o1.val, "seqname", seqname) IN
    IF ~IsOk(o2) THEN o2
    ELSE IF strand \notin STRAND_OPTIONS THEN Raise("ValueError")
    ELSE LET o3 == SeqRangeSetAttr(o2.val, "strand", strand) IN
    IF ~IsOk(o3) THEN o3
    ELSE SeqRangeSetAttr(o3.val, "data", data)

\* The accessors SeqRange.start, SeqRange.strand, SeqRange.end,
\* SeqRange.width
SeqRangeStart(self) == RangeGetAttr(self.dict["range"], "start")
SeqRangeStrand(self) == RangeGetAttr(self.dict["range"], "strand")
SeqRangeEnd(self) == RangeGetAttr(self.dict["range"], "end")
SeqRangeWidth(self) == RangeGetAttr(self.dict["range"], "width")

\* SeqRange.overlaps: `or` evaluates self.strand != other.strand only when the
\* seqnames are equal; the owned Range is handed `other` itself.
SeqRangeOverlaps(self, other) ==
    IF self.dict["seqname"] # other.dict["seqname"] THEN Ok(FALSE)
    ELSE LET s1 == SeqRangeStrand(self) IN
    IF ~IsOk(s1) THEN s1
    ELSE LET s2 == SeqRangeStrand(other) IN
    IF ~IsOk(s2) THEN s2
    ELSE IF s1.val # s2.val THEN Ok(FALSE)
    ELSE RangeOverlaps(self.dict["range"], other)

\* Inputs of the SeqRange constructions.
\* Range(s, e) for 0 <= s <= e <= MaxInt, the same object under both versions.
SeqRangeInputs ==
    {RangeInit(2, PyInt(s), PyInt(e), None, None).val :
        <<s, e>> \in {t \in (0..MaxInt) \X (0..MaxInt) : t[1] <= t[2]}}
SeqNames == {"chr1", "chr2"}
Strands == STRAND_OPTIONS \cup {"x"}
PyDict(f) == [t |-> "dict", v |-> f]
DataValues == {PyDict(<<>>), PyDict("score" :> 1)}
\* The value of the default argument data=dict().
DefaultData == PyDict(<<>>)

-----------------------------------------------------------------------------
(* class SeqRanges *)

\* The loop of SeqRanges.__init__ from position i on; acc is self._ranges.
\* SeqRange takes (range, seqname, strand, data) and is handed
\* (rng, strands[i], seqnames[i], data_list[i]) positionally.
RECURSIVE SeqRangesLoop(_, _, _, _, _, _, _)
SeqRangesLoop(ranges, strands, seqnames, data_list, i, arg_len, acc) ==
    IF i > arg_len THEN Ok(acc)
    ELSE LET rng == PyIndex(ranges, i)
             strands_i == PyIndex(strands, i)
             seqnames_i == PyIndex(seqnames, i)
         IN IF ~IsOk(rng) THEN rng
            ELSE IF ~IsOk(strands_i) THEN strands_i
            ELSE IF ~IsOk(seqnames_i) THEN seqnames_i
            ELSE LET sr == IF ~IsNone(data_list)
                           THEN SeqRangeInit(rng.val, strands_i.val,
                                             seqnames_i.val, data_list.v[i])
                           ELSE SeqRangeInit(rng.val, strands_i.val,
                                             seqnames_i.val, DefaultData)
                 IN IF ~IsOk(sr) THEN sr
                    ELSE SeqRangesLoop(ranges, strands, seqnames, data_list,
                                       i + 1, arg_len, Append(acc, sr.val))

\* SeqRanges.__init__; seqlengths is a reference to a dict of the heap.
SeqRangesInit(ranges, strands, seqnames, seqlengths, data_list) ==
    LET arg_len == verify_arg_length(<<ranges, strands, seqnames, data_list>>)
    IN IF ~IsOk(arg_len) THEN arg_len
       ELSE LET l == SeqRangesLoop(ranges, strands, seqnames, data_list, 1,
                                   arg_len.val, <<>>)
            IN IF ~IsOk(l) THEN l
               ELSE Ok([cls |-> "SeqRanges", _ranges |-> l.val,
                        seqlengths |-> seqlengths])

\* SeqRanges.__len__
SeqRangesLen(self) == Len(self._ranges)

\* A dict is a set of <<key, value>> pairs with distinct keys.
Keys(d) == {p[1] : p \in d}
Lookup(d, k) == (CHOOSE p \in d : p[1] = k)[2]

DictSetDefault(d, e) == d \cup {p \in e : p[1] \notin Keys(d)}

\* dict.update: the entries of e replace those of d with the same key.
DictUpdate(d, e) == {p \in d : p[1] \notin Keys(e)} \cup e

\* The dict object that the default argument seqlengths=dict() evaluates to
\* once, when the def statement runs.
DefaultSeqlengths == 0

\* SeqRanges.append on the heap h: the new self and the new heap.
SeqRangesAppend(self, other, h) ==
    IF ClassName(other) = "SeqRange"
    THEN Ok([self |-> [self EXCEPT !._ranges = Append(@, other)], heap |-> h])
    ELSE IF ClassName(other) = "SeqRanges"
    THEN Ok([self |-> [self EXCEPT !._ranges = @ \o other._ranges],
             heap |-> [h EXCEPT ![self.seqlengths] =
                                    DictUpdate(@, h[other.seqlengths])]])
    ELSE IF ClassName(other) = "list"
    THEN IF \E i \in 1..Len(other.v) : ClassName(other.v[i]) # "SeqRange"
         THEN Raise("ValueError")
         ELSE Ok([self |-> [self EXCEPT !._ranges = @ \o other.v], heap |-> h])
    ELSE Raise("ValueError")

\* list index i (from 0, negative from the end) as a position of a sequence
\* of length n, 0 when out of range.
ListPos(i, n) ==
    IF 0 <= i /\ i < n THEN i + 1
    ELSE IF i < 0 /\ -n <= i THEN n + i + 1
    ELSE 0

\* SeqRanges.__setitem__
SeqRangesSetItem(self, i, seqrange) ==
    IF ClassName(seqrange) # "SeqRange" THEN Raise("ValueError")
    ELSE IF ListPos(i, Len(self._ranges)) = 0 THEN Raise("IndexError")
    ELSE Ok([self EXCEPT !._ranges[ListPos(i, Len(self._ranges))] = seqrange])

\* SeqRanges.__delitem__
SeqRangesDelItem(self, i) ==
    IF ListPos(i, Len(self._ranges)) = 0 THEN Raise("IndexError")
    ELSE Ok([self EXCEPT !._ranges =
                [j \in 1..(Len(@) - 1) |->
                    IF j < ListPos(i, Len(@)) THEN @[j] ELSE @[j + 1]]])

\* Inputs of the SeqRanges constructions.
RangeLists ==
    {PyList(l) :
        l \in ListsOf({RangeInit(2, PyInt(0), PyInt(e), None, None).val :
                          e \in 0..1})}
StrandLists == {PyList(l) : l \in ListsOf({"+", "-", "x"})}
SeqNameLists == {PyList(l) : l \in ListsOf(SeqNames)}
OptDataLists == {None} \cup {PyList(l) : l \in ListsOf({PyDict("score" :> 1)})}

\* The program variables that hold SeqRanges collections, the keys and
\* lengths of the seqlengths literals, and the literals.
Slots == {"a", "b", "c"}
SeqlenKeys == {"chr1", "chr2"}
SeqlenVals == 1..MaxSeqLen
SeqlengthsLiterals == {{}} \cup {{p} : p \in SeqlenKeys \X SeqlenVals}
\* The dict a seqlengths literal in the construction of slot c allocates.
LiteralRef(c) == CHOOSE i \in 1..3 : <<"a", "b", "c">>[i] = c

Bound(c) == ClassName(colls[c]) # "NoneType"

-----------------------------------------------------------------------------
(* State machine *)

Init ==
    /\ op = "init"
    /\ args = <<>>
    /\ res = Ok(None)
    /\ colls = [c \in Slots |-> None]
    /\ heap = [i \in {DefaultSeqlengths} |-> {}]
    /\ pre = [colls |-> colls, heap |-> heap]

\* r = Range(start, end, width, name)
CallRange ==
    /\ op = "init"
    /\ \E pyv \in PyVersions, s \in OptInts, e \in OptInts, w \in OptInts,
          n \in Names :
        /\ op' = "Range"
        /\ args' = [py |-> pyv, start |-> s, end |-> e, width |-> w,
                    name |-> n]
        /\ res' = RangeInit(pyv, s, e, w, n)
        /\ UNCHANGED <<colls, heap, pre>>

\* a.overlaps(b)
CallRangeOverlaps ==
    /\ op = "init"
    /\ \E pyv \in PyVersions :
       \E a \in RangeObjects(pyv), b \in RangeObjects(pyv) \cup NonRangeObjects :
        /\ op' = "Range.overlaps"
        /\ args' = [self |-> a, other |-> b]
        /\ res' = RangeOverlaps(a, b)
        /\ UNCHANGED <<colls, heap, pre>>

\* rs = Ranges(starts, ends, widths, names)
CallRanges ==
    /\ op = "init"
    /\ \E pyv \in PyVersions, starts \in OptIntLists, ends \in OptIntLists, widths \in OptIntLists,
          names \in OptNameLists :
        /\ op' = "Ranges"
        /\ args' = [py |-> pyv, starts |-> starts, ends |-> ends, widths |-> widths,
                    names |-> names]
        /\ res' = RangesInit(pyv, starts, ends, widths, names)
        /\ UNCHANGED <<colls, heap, pre>>

\* sr = SeqRange(range, seqname, strand)
CallSeqRange ==
    /\ op = "init"
    /\ \E r \in SeqRangeInputs, n \in SeqNames, s \in Strands,
          d \in DataValues :
        /\ op' = "SeqRange"
        /\ args' = [range |-> r, seqname |-> n, strand |-> s, data |-> d]
        /\ res' = SeqRangeInit(r, n, s, d)
        /\ UNCHANGED <<colls, heap, pre>>

\* SeqRange(r1, n1, s1).overlaps(SeqRange(r2, n2, s2)): an exception of
\* either construction ends the evaluation.
CallSeqRangeOverlaps ==
    /\ op = "init"
    /\ \E r1 \in SeqRangeInputs, n1 \in SeqNames, s1 \in Strands,
          r2 \in SeqRangeInputs, n2 \in SeqNames, s2 \in Strands :
        LET a == SeqRangeInit(r1, n1, s1, DefaultData)
            b == SeqRangeInit(r2, n2, s2, DefaultData)
        IN /\ op' = "SeqRange.overlaps"
           /\ args' = [self |-> [range |-> r1, seqname |-> n1, strand |-> s1],
                       other |-> [range |-> r2, seqname |-> n2, strand |-> s2]]
           /\ res' = IF ~IsOk(a) THEN a
                     ELSE IF ~IsOk(b) THEN b
                     ELSE SeqRangeOverlaps(a.val, b.val)
           /\ UNCHANGED <<colls, heap, pre>>

\* srs = SeqRanges(ranges, strands, seqnames, data_list=data_list)
CallSeqRanges ==
    /\ op = "init"
    /\ \E ranges \in RangeLists, strands \in StrandLists,
          seqnames \in SeqNameLists, data_list \in OptDataLists :
        /\ op' = "SeqRanges"
        /\ args' = [ranges |-> ranges, strands |-> strands,
                    seqnames |-> seqnames, data_list |-> data_list]
        /\ res' = SeqRangesInit(ranges, strands, seqnames, DefaultSeqlengths,
                                data_list)
        /\ UNCHANGED <<colls, heap, pre>>

\* c = SeqRanges(ranges, strands, seqnames) or
\* c = SeqRanges(ranges, strands, seqnames, seqlengths={...}), for a variable
\* c not bound yet (the variables are bound in the order a, b, c); a
\* seqlengths literal is a new dict.
Construct(c) ==
    /\ ~Bound(c)
    /\ \A b \in Slots : LiteralRef(b) < LiteralRef(c) => Bound(b)
    /\ \E n \in 0..1, lit \in {None} \cup {PyDict(d) : d \in SeqlengthsLiterals} :
        LET ranges == PyList([i \in 1..n |->
                         RangeInit(2, PyInt(0), PyInt(1), None, None).val])
            strands == PyList([i \in 1..n |-> "+"])
            seqnames == PyList([i \in 1..n |-> "chr1"])
            ref == IF IsNone(lit) THEN DefaultSeqlengths ELSE LiteralRef(c)
            r == SeqRangesInit(ranges, strands, seqnames, ref, None)
        IN /\ op' = "SeqRanges"
           /\ args' = [self |-> c, n |-> n, seqlengths |-> lit]
           /\ res' = IF IsOk(r) THEN Ok(None) ELSE r
           /\ pre' = [colls |-> colls, heap |-> heap]
           /\ colls' = IF IsOk(r) THEN [colls EXCEPT ![c] = r.val] ELSE colls
           /\ heap' = IF IsOk(r) /\ ~IsNone(lit)
                      THEN (ref :> lit.v) @@ heap
                      ELSE heap

\* The arguments of append and __setitem__ that are not collections.
OtherArguments ==
    {PyList(<<>>),
     PyList(<<RangeInit(2, PyInt(0), PyInt(1), None, None).val>>),
     RangeInit(2, PyInt(0), PyInt(1), None, None).val}

\* a.append(other)
CallAppend(a) ==
    /\ Bound(a)
    /\ \E other \in {colls[b] : b \in {c \in Slots : Bound(c)}}
                       \cup OtherArguments :
        LET r == SeqRangesAppend(colls[a], other, heap)
        IN /\ op' = "SeqRanges.append"
           /\ args' = [self |-> a, other |-> other]
           /\ res' = IF IsOk(r) THEN Ok(None) ELSE r
           /\ pre' = [colls |-> colls, heap |-> heap]
           /\ colls' = IF IsOk(r) THEN [colls EXCEPT ![a] = r.val.self]
                       ELSE colls
           /\ heap' = IF IsOk(r) THEN r.val.heap ELSE heap

\* a[i] = x
CallSetItem(a) ==
    /\ Bound(a)
    /\ \E i \in {0}, x \in OtherArguments :
        LET r == SeqRangesSetItem(colls[a], i, x)
        IN /\ op' = "SeqRanges.__setitem__"
           /\ args' = [self |-> a, i |-> i, value |-> x]
           /\ res' = IF IsOk(r) THEN Ok(None) ELSE r
           /\ pre' = [colls |-> colls, heap |-> heap]
           /\ colls' = IF IsOk(r) THEN [colls EXCEPT ![a] = r.val] ELSE colls
           /\ UNCHANGED heap

\* del a[i]
CallDelItem(a) ==
    /\ Bound(a)
    /\ \E i \in -1..0 :
        LET r == SeqRangesDelItem(colls[a], i)
        IN /\ op' = "SeqRanges.__delitem__"
           /\ args' = [self |-> a, i |-> i]
           /\ res' = IF IsOk(r) THEN Ok(None) ELSE r
           /\ pre' = [colls |-> colls, heap |-> heap]
           /\ colls' = IF IsOk(r) THEN [colls EXCEPT ![a] = r.val] ELSE colls
           /\ UNCHANGED heap

NextRange == CallRange \/ CallRangeOverlaps

SpecRange == Init /\ [][NextRange]_vars

NextRanges == CallRanges

SpecRanges == Init /\ [][NextRanges]_vars

NextSeqRange == CallSeqRange \/ CallSeqRangeOverlaps \/ CallSeqRanges

SpecSeqRange == Init /\ [][NextSeqRange]_vars

NextSeqRanges ==
    \E a \in Slots :
        Construct(a) \/ CallAppend(a) \/ CallSetItem(a) \/ CallDelItem(a)

SpecSeqRanges == Init /\ [][NextSeqRanges]_vars

-----------------------------------------------------------------------------
(* Range: construction and overlap *)

\* The values a construction call supplied.
Given(x) == ~IsNone(x)

\* C1: every Range that construction returns satisfies width == end - start,
\* width >= 0 and start <= end, whatever combination of start, end and width
\* was supplied, all three included.
C1_ResolvedTriple ==
    (op = "Range" /\ IsOk(res)) =>
        /\ res.val.width.v = res.val.end.v - res.val.start.v
        /\ res.val.width.v >= 0
        /\ res.val.start.v <= res.val.end.v

\* The two supplied values of a call with exactly one absent field are valid.
ValidPair(a) ==
    /\ CountNone(a.start, a.end, a.width) = 1
    /\ (Given(a.start) /\ Given(a.end)) => a.start.v <= a.end.v
    /\ Given(a.width) => a.width.v >= 0

\* C2: with exactly one of start, end, width absent and the two supplied
\* values valid, construction succeeds, keeps the supplied values and derives
\* the third: start = end - width, end = start + width, width = end - start.
C2_DerivesThird ==
    (op = "Range" /\ ValidPair(args)) =>
        /\ IsOk(res)
        /\ Given(args.start) => res.val.start = args.start
        /\ Given(args.end) => res.val.end = args.end
        /\ Given(args.width) => res.val.width = args.width
        /\ res.val.start.v = res.val.end.v - res.val.width.v
        /\ res.val.end.v = res.val.start.v + res.val.width.v
        /\ res.val.width.v = res.val.end.v - res.val.start.v

\* The call is malformed: more than one field absent, start > end, or a
\* negative width.
Malformed(a) ==
    \/ CountNone(a.start, a.end, a.width) > 1
    \/ (Given(a.start) /\ Given(a.end) /\ a.start.v > a.end.v)
    \/ (Given(a.width) /\ a.width.v < 0)

\* C3: a malformed construction call (two or three fields absent, start > end,
\* or width < 0) fails with the invalid-argument error (ValueError).
C3_MalformedRejected ==
    (op = "Range" /\ Malformed(args)) => res.status = "ValueError"

\* The closed intervals [a.start, a.end] and [b.start, b.end] share a point.
Intersect(a, b) ==
    \E x \in a.start.v..a.end.v : b.start.v <= x /\ x <= b.end.v

\* C4: a.overlaps(b) is true exactly when the closed intervals of the two
\* Ranges intersect, boundary contact included, and an argument that is not
\* a Range fails with the invalid-argument error (ValueError).
C4_OverlapsClosed ==
    op = "Range.overlaps" =>
        IF ClassName(args.other) = "Range"
        THEN /\ IsOk(res)
             /\ res.val = Intersect(args.self, args.other)
             /\ res.val = (args.other.start.v <= args.self.end.v
                           /\ args.self.start.v <= args.other.end.v)
        ELSE res.status = "ValueError"

\* Two Ranges of positive width that only touch at a boundary overlap.
C4_Witness ==
    /\ op = "Range.overlaps"
    /\ ClassName(args.other) = "Range"
    /\ args.self.start.v < args.self.end.v
    /\ args.self.end.v = args.other.start.v
    /\ args.other.start.v < args.other.end.v
    /\ res = Ok(TRUE)

-----------------------------------------------------------------------------
(* Ranges: bulk construction *)

\* The value position i of a list argument supplies, None for an absent list.
At(l, i) == IF Given(l) THEN l.v[i] ELSE None

\* Position i of the lists describes a valid Range: at most one of start, end,
\* width absent, start <= end, width >= 0, and width = end - start when all
\* three are there.
ValidEntry(s, e, w) ==
    /\ CountNone(s, e, w) <= 1
    /\ (Given(s) /\ Given(e)) => s.v <= e.v
    /\ Given(w) => w.v >= 0
    /\ (Given(s) /\ Given(e) /\ Given(w)) => w.v = e.v - s.v

EntryStart(s, e, w) == IF Given(s) THEN s.v ELSE e.v - w.v
EntryEnd(s, e, w) == IF Given(e) THEN e.v ELSE s.v + w.v
EntryWidth(s, e, w) == IF Given(w) THEN w.v ELSE e.v - s.v

\* C8: Ranges construction from any subset of the lists starts, ends, widths,
\* names that share one length n, each position describing a valid Range,
\* yields a collection of size n whose start, end and width views return the
\* per-entry values in list order; provided lists of differing lengths fail
\* with the length-mismatch error (ValueError).
C8_BulkRanges ==
    op = "Ranges" =>
        LET lens == ArgLens(<<args.starts, args.ends, args.widths, args.names>>)
            n == CHOOSE k \in lens : TRUE
            S(i) == At(args.starts, i)
            E(i) == At(args.ends, i)
            W(i) == At(args.widths, i)
        IN /\ Cardinality(lens) > 1 => res.status = "ValueError"
           /\ (Cardinality(lens) = 1
               /\ \A i \in 1..n : ValidEntry(S(i), E(i), W(i))) =>
                 /\ IsOk(res)
                 /\ RangesLen(res.val) = n
                 /\ \A i \in 1..n :
                      /\ RangesStart(res.val)[i].v = EntryStart(S(i), E(i), W(i))
                      /\ RangesEnd(res.val)[i].v = EntryEnd(S(i), E(i), W(i))
                      /\ RangesWidth(res.val)[i].v = EntryWidth(S(i), E(i), W(i))

-----------------------------------------------------------------------------
(* SeqRange: construction and overlap *)

\* C5: SeqRange construction fails with the invalid-strand error (ValueError)
\* for a strand outside "+", "-", "*" and succeeds for each of the three;
\* the strand accessor of the new SeqRange then returns the supplied strand
\* and its start, end, width accessors those of the owned Range.
C5_StrandChecked ==
    op = "SeqRange" =>
        IF args.strand \notin {"+", "-", "*"}
        THEN res.status = "ValueError"
        ELSE /\ IsOk(res)
             /\ SeqRangeStrand(res.val) = Ok(args.strand)
             /\ SeqRangeStart(res.val) = Ok(args.range.start)
             /\ SeqRangeEnd(res.val) = Ok(args.range.end)
             /\ SeqRangeWidth(res.val) = Ok(args.range.width)

\* C6: for two SeqRanges a and b, a.overlaps(b) returns a boolean without
\* error: false when the seqnames or the strands differ, and otherwise the
\* closed-interval overlap of the two owned Ranges.
C6_SeqOverlaps ==
    (/\ op = "SeqRange.overlaps"
     /\ args.self.strand \in {"+", "-", "*"}
     /\ args.other.strand \in {"+", "-", "*"}) =>
        /\ IsOk(res)
        /\ res.val = (/\ args.self.seqname = args.other.seqname
                      /\ args.self.strand = args.other.strand
                      /\ args.other.range.start.v <= args.self.range.end.v
                      /\ args.self.range.start.v <= args.other.range.end.v)

-----------------------------------------------------------------------------
(* SeqRanges: bulk construction, append and the seqlengths mappings *)

\* C7: SeqRanges construction from parallel lists ranges, strands, seqnames
\* (and an optional data_list) of equal length n yields a collection of size
\* n whose entry i owns ranges[i] and has strand strands[i], seqname
\* seqnames[i] and data data_list[i]; lists of differing lengths fail with
\* the length-mismatch error (ValueError).
C7_BulkSeqRanges ==
    op = "SeqRanges" =>
        LET lens == ArgLens(<<args.ranges, args.strands, args.seqnames,
                              args.data_list>>)
            n == CHOOSE k \in lens : TRUE
        IN /\ Cardinality(lens) > 1 => res.status = "ValueError"
           /\ (Cardinality(lens) = 1
               /\ \A i \in 1..n : args.strands.v[i] \in {"+", "-", "*"}) =>
                 /\ IsOk(res)
                 /\ SeqRangesLen(res.val) = n
                 /\ \A i \in 1..n :
                      /\ res.val._ranges[i].dict["range"] = args.ranges.v[i]
                      /\ res.val._ranges[i].dict["strand"] = args.strands.v[i]
                      /\ res.val._ranges[i].dict["seqname"] = args.seqnames.v[i]
                      /\ Given(args.data_list) =>
                           res.val._ranges[i].dict["data"] = args.data_list.v[i]

\* The operations on SeqRanges collections.
CollectionOps ==
    {"SeqRanges", "SeqRanges.append", "SeqRanges.__setitem__",
     "SeqRanges.__delitem__"}

C10_SeqlengthsFrame ==
    op \in CollectionOps =>
        /\ \A c \in Slots \ {args.self} :
              ClassName(pre.colls[c]) = "SeqRanges" =>
                 heap[colls[c].seqlengths] = pre.heap[pre.colls[c].seqlengths]
        /\ (op = "SeqRanges" /\ IsOk(res) /\ IsNone(args.seqlengths)) =>
              heap[colls[args.self].seqlengths] = {}

=============================================================================
